---- MODULE Spec2Model ----
(***************************************************************************)
(* A model of hscommon's testutil.py: the call-logging GUI double          *)
(* (CallLogger), the reversible attribute patcher (Patcher, with_app),     *)
(* the date patch (Patcher.patch_today), the temporary-directory fixture   *)
(* (with_tmpdir) and the argument unification (_unify_args).               *)
(*                                                                         *)
(* Each component has its own specification; the variables of the other    *)
(* components stay at their initial values.                                *)
(***************************************************************************)
EXTENDS Integers, Sequences, FiniteSets, TLC

VARIABLES
    calls,          \* CallLogger.calls: the ordered log of method names
    check,          \* the last check_gui_calls* invocation and its outcome
    attrs,          \* the attributes of the patched objects: <<object, name>> -> value
    patched,        \* Patcher._patched: the patch records, oldest first
    target_module,  \* Patcher._target_module
    pc,             \* where the Patcher's user is: start, constructed, body, done
    scope,          \* how the Patcher is scoped: none, with, with_app
    lastOp,         \* the Patcher operation that made the last step
    firstValue,     \* history: each attribute's value before its first patch
    scopeExit,      \* history: how the scope was left and what leaving it did
    unify,          \* the last _unify_args call: its arguments and what it returned
    realNow,        \* the real clock: seconds since the epoch
    timeFn,         \* what time.time is bound to
    timePatched,    \* the old bindings of time.time the patch_today patchers hold
    lastRead,       \* the last read of time.time()
    anchor,         \* history: the real clock when the outermost patch_today ran
    requested,      \* history: the dates asked of the patch_today calls in place
    fs,             \* the filesystem: the paths that exist
    tmp             \* the with_tmpdir call in progress or just finished

loggerVars == <<calls, check>>
patcherVars == <<attrs, patched, target_module, pc, scope, lastOp, firstValue, scopeExit>>
timeVars == <<realNow, timeFn, timePatched, lastRead, anchor, requested>>
tmpVars == <<fs, tmp>>
vars == <<calls, check, attrs, patched, target_module, pc, scope, lastOp, firstValue,
          scopeExit, unify, realNow, timeFn, timePatched, lastRead, anchor, requested,
          fs, tmp>>

\* ------------------------------------------------------------------------
\* Bounds
\* ------------------------------------------------------------------------
MaxCalls == 4        \* recorded calls kept in one log
MaxExpected == 2     \* length of an `expected` argument
MaxRecords == 2      \* patch() is called while fewer records than this are held
MaxParams == 3       \* parameters of a function given to _unify_args
MaxTicks == 3        \* advances of the real clock
MaxTimePatches == 2  \* nested patch_today scopes
TickSeconds == 30000 \* seconds the real clock advances in one step
RealStartDay == 18322 \* the real date at the start, in days since the epoch: 2020-03-01
MaxTmpCalls == 3     \* calls of a with_tmpdir wrapper

\* ------------------------------------------------------------------------
\* Python helpers
\* ------------------------------------------------------------------------
SeqsUpTo(S, n) == UNION {[1..k -> S] : k \in 0..n}

\* set(iterable)
ToSet(s) == {s[i] : i \in DOMAIN s}

\* an optional argument: None, or a list
NoneArg == [given |-> FALSE, val |-> <<>>]
Some(s) == [given |-> TRUE, val |-> s]

\* list.index(x), 0-based; only used when x is in the list
ListIndex(s, x) == (CHOOSE i \in DOMAIN s : s[i] = x /\ \A j \in 1..(i - 1) : s[j] # x) - 1

\* eq_(a, b): the assertion `a == b` holds
Eq_(a, b) == a = b

\* ------------------------------------------------------------------------
\* CallLogger
\* ------------------------------------------------------------------------
\* names of the methods the tested code calls on the GUI double
Names == {"a", "b", "x", "y"}

NoCheck == [op |-> "none", recorded |-> <<>>, expected |-> NoneArg,
            not_expected |-> NoneArg, verify_order |-> FALSE, raised |-> FALSE]

\* clear_calls(): del self.calls[:]
ClearedCallsKept(c) == c
ClearedCalls(c) == <<>>

\* check_gui_calls: which comparison eq_ is given
CheckGuiCallsPassesSets(c, expected, verify_order) == Eq_(ToSet(c), ToSet(expected))
CheckGuiCallsPasses(c, expected, verify_order) ==
    IF verify_order
    THEN Eq_(c, expected)
    ELSE Eq_(ToSet(c), ToSet(expected))

\* check_gui_calls_partial: `not_called` is empty
AllCalled(c, expected) == (ToSet(expected) \ ToSet(c)) = {}

\* check_gui_calls_partial: the verify_order loop from position i of expected on;
\* FALSE when it raises AssertionError
RECURSIVE OrderLoopStrict(_, _, _, _)
OrderLoopStrict(c, expected, i, max_index) ==
    IF i > Len(expected) THEN TRUE
    ELSE LET index == ListIndex(c, expected[i])
         IN  IF index <= max_index /\ i > 1 THEN FALSE
             ELSE OrderLoopStrict(c, expected, i + 1, index)
RECURSIVE OrderLoop(_, _, _, _)
OrderLoop(c, expected, i, max_index) ==
    IF i > Len(expected) THEN TRUE
    ELSE LET index == ListIndex(c, expected[i])
         IN  IF index < max_index THEN FALSE
             ELSE OrderLoop(c, expected, i + 1, index)

\* check_gui_calls_partial: `called` is empty
NoneCalled(c, not_expected) == (ToSet(not_expected) \cap ToSet(c)) = {}

\* check_gui_calls_partial reaches clear_calls() without raising
CheckGuiCallsPartialPasses(c, expected, not_expected, verify_order) ==
    /\ expected.given =>
          /\ AllCalled(c, expected.val)
          /\ verify_order => OrderLoop(c, expected.val, 1, 0)
    /\ not_expected.given => NoneCalled(c, not_expected.val)

LoggerInit ==
    /\ calls = <<>>
    /\ check = NoCheck

\* __getattr__(func_name)(*args, **kw)
LoggerCall(func_name) ==
    /\ Len(calls) < MaxCalls
    /\ calls' = Append(calls, func_name)
    /\ check' = NoCheck
    /\ UNCHANGED <<patcherVars, unify, timeVars, tmpVars>>

\* clear_calls()
ClearCalls ==
    /\ calls' = ClearedCalls(calls)
    /\ check' = NoCheck
    /\ UNCHANGED <<patcherVars, unify, timeVars, tmpVars>>

\* check_gui_calls(expected, verify_order).  `check` records the invocation and
\* whether eq_ raised, in which case clear_calls() is not reached.  A check is
\* taken from a state whose record is blank: the states it leads to are the same
\* from any record, since the check reads only `calls`.
CheckGuiCalls(expected, verify_order) ==
    LET passes == CheckGuiCallsPasses(calls, expected, verify_order)
    IN  /\ check.op = "none"
        /\ calls' = IF passes THEN ClearedCalls(calls) ELSE calls
        /\ check' = [op |-> "check_gui_calls", recorded |-> calls,
                     expected |-> Some(expected), not_expected |-> NoneArg,
                     verify_order |-> verify_order, raised |-> ~passes]
        /\ UNCHANGED <<patcherVars, unify, timeVars, tmpVars>>

\* check_gui_calls_partial(expected, not_expected, verify_order): an assert or the
\* raise in the loop leaves the method before clear_calls()
CheckGuiCallsPartial(expected, not_expected, verify_order) ==
    LET passes == CheckGuiCallsPartialPasses(calls, expected, not_expected, verify_order)
    IN  /\ check.op = "none"
        /\ calls' = IF passes THEN ClearedCalls(calls) ELSE calls
        /\ check' = [op |-> "check_gui_calls_partial", recorded |-> calls,
                     expected |-> expected, not_expected |-> not_expected,
                     verify_order |-> verify_order, raised |-> ~passes]
        /\ UNCHANGED <<patcherVars, unify, timeVars, tmpVars>>

ExpectedArgs == SeqsUpTo(Names, MaxExpected)
OptExpectedArgs == {NoneArg} \cup {Some(e) : e \in ExpectedArgs}
OptNotExpectedArgs == {NoneArg} \cup {Some(<<n>>) : n \in {"a", "x"}}

LoggerNext ==
    \/ \E n \in Names : LoggerCall(n)
    \/ ClearCalls
    \/ \E e \in ExpectedArgs, vo \in BOOLEAN : CheckGuiCalls(e, vo)
    \/ \E e \in OptExpectedArgs, ne \in OptNotExpectedArgs, vo \in BOOLEAN :
           CheckGuiCallsPartial(e, ne, vo)

\* ------------------------------------------------------------------------
\* Patcher
\* ------------------------------------------------------------------------
\* The patched world: an object T with one attribute, and the tested module M,
\* whose top-level names x and y may be bound to the same value ("from T import
\* attr").  ModuleNames is M.__dict__ in its iteration order.
ModuleNames == <<"x", "y">>
Keys == {<<"T", "attr">>} \cup {<<"M", ModuleNames[i]>> : i \in DOMAIN ModuleNames}
Values == {"V", "R1", "R2"}
Unset == "unset"

GetAttr(a, target, attrname) == a[<<target, attrname>>]
SetAttr(a, target, attrname, value) == [a EXCEPT ![<<target, attrname>>] = value]

\* the first three lines of patch(): read, record, overwrite
PatchOne(st, target, attrname, replace_with) ==
    LET oldvalue == GetAttr(st.attrs, target, attrname)
    IN  [attrs |-> SetAttr(st.attrs, target, attrname, replace_with),
         patched |-> Append(st.patched,
                            [target |-> target, attrname |-> attrname, oldvalue |-> oldvalue])]

\* `value is oldvalue`
IsAliasNever(value, oldvalue) == FALSE
IsAlias(value, oldvalue) == value = oldvalue

\* the loop over target_module.__dict__.items() from its i-th entry on; the
\* recursive patch() has target_module as its target, so it scans no further
RECURSIVE PatchAliases(_, _, _, _)
PatchAliases(st, i, oldvalue, replace_with) ==
    IF i > Len(ModuleNames) THEN st
    ELSE LET key == ModuleNames[i]
             value == GetAttr(st.attrs, "M", key)
         IN  PatchAliases(IF IsAlias(value, oldvalue)
                          THEN PatchOne(st, "M", key, replace_with)
                          ELSE st,
                          i + 1, oldvalue, replace_with)

\* patch(target, attrname, replace_with) by a patcher whose target module is tm
PatchResult(st, tm, target, attrname, replace_with) ==
    LET oldvalue == GetAttr(st.attrs, target, attrname)
        one == PatchOne(st, target, attrname, replace_with)
    IN  IF tm # "None" /\ tm # target
        THEN PatchAliases(one, 1, oldvalue, replace_with)
        ELSE one

\* reversed(self._patched)
Forward(p) == p
Reversed(p) == [i \in 1..Len(p) |-> p[Len(p) + 1 - i]]

\* the for loop of unpatch() over `order` from its i-th record on
RECURSIVE UnpatchLoop(_, _, _)
UnpatchLoop(a, order, i) ==
    IF i > Len(order) THEN a
    ELSE UnpatchLoop(SetAttr(a, order[i].target, order[i].attrname, order[i].oldvalue),
                     order, i + 1)

\* unpatch(): the attributes afterwards
Unpatched(a, p) == UnpatchLoop(a, Reversed(p), 1)

\* unpatch(): self._patched afterwards; the method only reads it
PatchedConsumed(p) == <<>>
PatchedAfterUnpatch(p) == p

\* the finally clause of with_app's wrapper runs whatever func(app) did
FinallyOnReturnOnly(raised) == ~raised
FinallyRuns(raised) == TRUE

\* __exit__ returns False: an exception of the body is not suppressed
ExitSuppresses == FALSE

NoExit == [unpatches |-> 0, raised |-> FALSE, propagated |-> FALSE]

PatcherInit ==
    /\ attrs = [k \in Keys |-> IF k = <<"M", "y">> THEN "R1" ELSE "V"]
    /\ patched = <<>>
    /\ target_module = "None"
    /\ pc = "start"
    /\ scope = "none"
    /\ lastOp = "none"
    /\ firstValue = [k \in Keys |-> Unset]
    /\ scopeExit = NoExit

\* Patcher(target_module)
PatcherNew(tm) ==
    /\ pc = "start"
    /\ pc' = "constructed"
    /\ patched' = <<>>
    /\ target_module' = tm
    /\ lastOp' = "new"
    /\ UNCHANGED <<attrs, scope, firstValue, scopeExit>>
    /\ UNCHANGED <<loggerVars, unify, timeVars, tmpVars>>

\* __enter__
PatcherEnter ==
    /\ pc = "constructed"
    /\ pc' = "body"
    /\ scope' = "with"
    /\ lastOp' = "enter"
    /\ UNCHANGED <<attrs, patched, target_module, firstValue, scopeExit>>
    /\ UNCHANGED <<loggerVars, unify, timeVars, tmpVars>>

\* with_app's wrapper: appfunc() has returned (app, patcher) and func(app) starts
WithAppCall ==
    /\ pc = "constructed"
    /\ pc' = "body"
    /\ scope' = "with_app"
    /\ lastOp' = "with_app"
    /\ UNCHANGED <<attrs, patched, target_module, firstValue, scopeExit>>
    /\ UNCHANGED <<loggerVars, unify, timeVars, tmpVars>>

\* patch(target, attrname, replace_with)
Patch(target, attrname, replace_with) ==
    LET st == PatchResult([attrs |-> attrs, patched |-> patched], target_module,
                          target, attrname, replace_with)
        gained == {k \in Keys : \E i \in (Len(patched) + 1)..Len(st.patched) :
                                   <<st.patched[i].target, st.patched[i].attrname>> = k}
    IN  /\ pc \in {"constructed", "body"}
        /\ Len(patched) < MaxRecords
        /\ attrs' = st.attrs
        /\ patched' = st.patched
        /\ firstValue' = [k \in Keys |-> IF firstValue[k] = Unset /\ k \in gained
                                         THEN attrs[k] ELSE firstValue[k]]
        /\ lastOp' = "patch"
        /\ UNCHANGED <<target_module, pc, scope, scopeExit>>
        /\ UNCHANGED <<loggerVars, unify, timeVars, tmpVars>>

\* the test assigns the attribute itself: setattr(target, attrname, value)
Assign(target, attrname, value) ==
    /\ pc \in {"constructed", "body"}
    /\ attrs' = SetAttr(attrs, target, attrname, value)
    /\ lastOp' = "assign"
    /\ UNCHANGED <<patched, target_module, pc, scope, firstValue, scopeExit>>
    /\ UNCHANGED <<loggerVars, unify, timeVars, tmpVars>>

\* unpatch(), called by the test
Unpatch ==
    /\ pc \in {"constructed", "body"}
    /\ attrs' = Unpatched(attrs, patched)
    /\ patched' = PatchedAfterUnpatch(patched)
    /\ lastOp' = "unpatch"
    /\ UNCHANGED <<target_module, pc, scope, firstValue, scopeExit>>
    /\ UNCHANGED <<loggerVars, unify, timeVars, tmpVars>>

\* __exit__(exc_type, exc_val, exc_tb): the with block returned or raised
PatcherExit(raised) ==
    /\ pc = "body"
    /\ scope = "with"
    /\ attrs' = Unpatched(attrs, patched)
    /\ patched' = PatchedAfterUnpatch(patched)
    /\ scopeExit' = [unpatches |-> scopeExit.unpatches + 1, raised |-> raised,
                     propagated |-> raised /\ ~ExitSuppresses]
    /\ pc' = "done"
    /\ lastOp' = "exit"
    /\ UNCHANGED <<target_module, scope, firstValue>>
    /\ UNCHANGED <<loggerVars, unify, timeVars, tmpVars>>

\* with_app's wrapper: func(app) returned or raised; finally: patcher.unpatch()
WithAppFinally(raised) ==
    /\ pc = "body"
    /\ scope = "with_app"
    /\ IF FinallyRuns(raised)
       THEN /\ attrs' = Unpatched(attrs, patched)
            /\ patched' = PatchedAfterUnpatch(patched)
            /\ scopeExit' = [unpatches |-> scopeExit.unpatches + 1, raised |-> raised,
                             propagated |-> raised]
       ELSE /\ scopeExit' = [unpatches |-> scopeExit.unpatches, raised |-> raised,
                             propagated |-> raised]
            /\ UNCHANGED <<attrs, patched>>
    /\ pc' = "done"
    /\ lastOp' = "finally"
    /\ UNCHANGED <<target_module, scope, firstValue>>
    /\ UNCHANGED <<loggerVars, unify, timeVars, tmpVars>>

PatcherNext ==
    \/ \E tm \in {"None", "M"} : PatcherNew(tm)
    \/ PatcherEnter
    \/ WithAppCall
    \/ \E k \in Keys, v \in Values : Patch(k[1], k[2], v)
    \/ \E k \in Keys, v \in Values : Assign(k[1], k[2], v)
    \/ Unpatch
    \/ \E raised \in BOOLEAN : PatcherExit(raised)
    \/ \E raised \in BOOLEAN : WithAppFinally(raised)

\* ------------------------------------------------------------------------
\* _unify_args
\* ------------------------------------------------------------------------
Min(a, b) == IF a < b THEN a ELSE b
Max(a, b) == IF a > b THEN a ELSE b

\* s[-n:] for n >= 1: the last n elements, all of s when it has fewer
PySuffix(s, n) == SubSeq(s, Max(1, Len(s) - n + 1), Len(s))

\* dict.setdefault(k, v)
SetDefault(d, k, v) ==
    IF k \in DOMAIN d THEN d
    ELSE [x \in DOMAIN d \cup {k} |-> IF x = k THEN v ELSE d[x]]

\* del d[k], for k in d
DelKey(d, k) == [x \in DOMAIN d \ {k} |-> d[x]]

EmptyDict == [x \in {} |-> 0]

\* The functions given to _unify_args.  A Python function has n parameters
\* p1..pn, the last d of them with declared defaults, and a local variable, which
\* co_varnames lists after the parameters; it may be a bound method, whose first
\* parameter is self.  A builtin has no __code__.
ParamName == <<"p1", "p2", "p3", "p4", "p5">>
DefaultValue(i) == 100 + i       \* the declared default of parameter i
PositionalValue(i) == 10 + i     \* the value a call passes at position i
KeywordValue(i) == 20 + i        \* the value a call passes for parameter i by keyword
SelfObject == PositionalValue(0) \* func.__self__

Funcs ==
    {[has_code |-> TRUE, bound |-> b, n |-> n, d |-> d] :
        b \in BOOLEAN, n \in 0..MaxParams, d \in 0..MaxParams}
    \cup {[has_code |-> FALSE, bound |-> FALSE, n |-> 0, d |-> 0]}

\* func.__code__.co_argcount
CoArgcount(func) == func.n + (IF func.bound THEN 1 ELSE 0)

\* func.__code__.co_varnames
CoVarnames(func) ==
    (IF func.bound THEN <<"self">> ELSE <<>>)
    \o [i \in 1..func.n |-> ParamName[i]]
    \o <<"tmp">>

\* func.__defaults__ as a list
Defaults(func) == [j \in 1..func.d |-> DefaultValue(func.n - func.d + j)]

\* the for loop over zip(arg_names, args) from its i-th pair on
RECURSIVE ZipLoop(_, _, _, _)
ZipLoop(result, arg_names, args, i) ==
    IF i > Min(Len(arg_names), Len(args)) THEN result
    ELSE ZipLoop(SetDefault(result, arg_names[i], args[i]), arg_names, args, i + 1)

\* the loop `for kw in args_to_ignore: del result[kw]` from its i-th name on
RECURSIVE IgnoreLoop(_, _, _)
IgnoreLoop(res, args_to_ignore, i) ==
    IF i > Len(args_to_ignore) \/ res.raised # "none" THEN res
    ELSE IF args_to_ignore[i] \in DOMAIN res.value
         THEN IgnoreLoop([raised |-> "none", value |-> DelKey(res.value, args_to_ignore[i])],
                         args_to_ignore, i + 1)
         ELSE [raised |-> "KeyError", value |-> res.value]

\* _unify_args(func, args, kwargs, args_to_ignore)
UnifyArgs(func, args, kwargs, args_to_ignore) ==
    LET result ==
            IF func.has_code
            THEN LET args1 == IF func.bound THEN <<SelfObject>> \o args ELSE args
                     defaults == Defaults(func)
                     arg_count == CoArgcount(func)
                     arg_names == CoVarnames(func)
                     args2 == IF Len(args1) < arg_count
                              THEN LET required_arg_count == arg_count - Len(args1)
                                   IN  args1 \o PySuffix(defaults, required_arg_count)
                              ELSE args1
                 IN  ZipLoop(kwargs, arg_names, args2, 1)
            ELSE [x \in DOMAIN kwargs \cup {"args"} |->
                     IF x = "args" THEN args ELSE kwargs[x]]
    IN  IgnoreLoop([raised |-> "none", value |-> result], args_to_ignore, 1)

\* The valid calls of func: k positional arguments and keyword arguments for the
\* parameters in kw, none of them given twice and none without a default left out.
\* A builtin is called with positional arguments only.
ValidCalls(func) ==
    {[k |-> k, kw |-> kw] : k \in 0..func.n, kw \in SUBSET (1..func.n)} \cap
    {c \in [k : 0..func.n, kw : SUBSET (1..func.n)] :
        /\ \A i \in c.kw : i > c.k
        /\ \A i \in 1..(func.n - func.d) : i <= c.k \/ i \in c.kw}

CallArgs(call) == [i \in 1..call.k |-> PositionalValue(i)]
CallKwargs(call) == [x \in {ParamName[i] : i \in call.kw} |->
                        KeywordValue(CHOOSE i \in call.kw : ParamName[i] = x)]

NoUnify == [op |-> "none", func |-> [has_code |-> FALSE, bound |-> FALSE, n |-> 0, d |-> 0],
            call |-> [k |-> 0, kw |-> {}], args_to_ignore |-> <<>>,
            result |-> [raised |-> "none", value |-> EmptyDict]]

UnifyInit == unify = NoUnify

\* a call _unify_args(func, args, kwargs, args_to_ignore)
UnifyCall(func, call, args_to_ignore) ==
    /\ func.d <= func.n
    /\ call \in ValidCalls(func)
    /\ unify' = [op |-> "call", func |-> func, call |-> call,
                 args_to_ignore |-> args_to_ignore,
                 result |-> UnifyArgs(func, CallArgs(call), CallKwargs(call), args_to_ignore)]
    /\ UNCHANGED <<loggerVars, patcherVars, timeVars, tmpVars>>

UnifyNext ==
    \E func \in Funcs, k \in 0..MaxParams, kw \in SUBSET (1..MaxParams),
       ignore \in {<<>>, <<"p1">>} :
        UnifyCall(func, [k |-> k, kw |-> kw], ignore)

\* ------------------------------------------------------------------------
\* Patcher.patch_today and the patch_today decorator
\* ------------------------------------------------------------------------
SecondsPerDay == 24 * 60 * 60

\* datetime.date.today(), which reads time.time(): the date as days since the epoch
DateOf(t) == t \div SecondsPerDay

\* the dates asked for: 2020-01-15, and the day after the real start
RequestedDays == {RealStartDay - 46, RealStartDay + 1}

RealTime == [kind |-> "real", time_now |-> 0, delta_days |-> 0]

\* lambda: time_now - (delta.days * 24 * 60 * 60), with time_now and delta bound
\* when patch_today ran
LambdaValueOfNow(f, now) == now - (f.delta_days * SecondsPerDay)
LambdaValue(f, now) == f.time_now - (f.delta_days * SecondsPerDay)

\* time.time() under the binding f when the real clock shows `now`
TimeTime(f, now) == IF f.kind = "real" THEN now ELSE LambdaValue(f, now)

NoRead == [op |-> "none", value |-> 0]

TimeInit ==
    /\ realNow = RealStartDay * SecondsPerDay + TickSeconds
    /\ timeFn = RealTime
    /\ timePatched = <<>>
    /\ lastRead = NoRead
    /\ anchor = 0
    /\ requested = <<>>

\* the real clock advances
Tick ==
    /\ realNow < RealStartDay * SecondsPerDay + (MaxTicks + 1) * TickSeconds
    /\ realNow' = realNow + TickSeconds
    /\ lastRead' = NoRead
    /\ UNCHANGED <<timeFn, timePatched, anchor, requested>>
    /\ UNCHANGED <<loggerVars, patcherVars, unify, tmpVars>>

\* the decorator's wrapper: p = Patcher(); p.patch_today(year, month, day), where
\* new_today is date(year, month, day)
PatchToday(new_today) ==
    LET today == DateOf(TimeTime(timeFn, realNow))
        time_now == TimeTime(timeFn, realNow)
        delta_days == today - new_today
    IN  /\ Len(timePatched) < MaxTimePatches
        /\ timePatched' = Append(timePatched, timeFn)
        /\ timeFn' = [kind |-> "lambda", time_now |-> time_now, delta_days |-> delta_days]
        /\ anchor' = IF timePatched = <<>> THEN realNow ELSE anchor
        /\ requested' = Append(requested, new_today)
        /\ lastRead' = NoRead
        /\ UNCHANGED realNow
        /\ UNCHANGED <<loggerVars, patcherVars, unify, tmpVars>>

\* the decorator's wrapper: finally: p.unpatch(), by the innermost patcher
UnpatchToday ==
    /\ timePatched # <<>>
    /\ timeFn' = timePatched[Len(timePatched)]
    /\ timePatched' = SubSeq(timePatched, 1, Len(timePatched) - 1)
    /\ requested' = SubSeq(requested, 1, Len(requested) - 1)
    /\ lastRead' = NoRead
    /\ UNCHANGED <<realNow, anchor>>
    /\ UNCHANGED <<loggerVars, patcherVars, unify, tmpVars>>

\* the tested code calls time.time()
ReadTime ==
    /\ lastRead' = [op |-> "read", value |-> TimeTime(timeFn, realNow)]
    /\ UNCHANGED <<realNow, timeFn, timePatched, anchor, requested>>
    /\ UNCHANGED <<loggerVars, patcherVars, unify, tmpVars>>

TimeNext ==
    \/ Tick
    \/ \E d \in RequestedDays : PatchToday(d)
    \/ UnpatchToday
    \/ ReadTime

\* ------------------------------------------------------------------------
\* with_tmpdir
\* ------------------------------------------------------------------------
\* A path is the sequence of its components below the temporary-file directory.
TmpNames == {"t1", "t2"}        \* the names tempfile.mkdtemp() may pick
FileNames == {"f", "g", "h"}    \* what the wrapped function may create in its directory
CallerArgs == {<<>>, <<"arg">>} \* the arguments the wrapper is called with

IsUnder(path, dir) == Len(path) >= Len(dir) /\ SubSeq(path, 1, Len(dir)) = dir

\* io.exists(path)
IoExists(files, path) == path \in files

\* io.rmtree(path): the directory and everything below it
IoRmtree(files, path) == {q \in files : ~IsUnder(q, path)}

\* the finally clause: if io.exists(tmppath): io.rmtree(tmppath)
TmpdirFinallyIfEmpty(files, tmppath) ==
    IF \E q \in files : q # tmppath /\ IsUnder(q, tmppath) THEN files ELSE files \ {tmppath}
TmpdirFinally(files, tmppath) ==
    IF IoExists(files, tmppath) THEN IoRmtree(files, tmppath) ELSE files

NoTmp == [pc |-> "idle", ncalls |-> 0, tmppath |-> <<>>, args |-> <<>>, passed |-> <<>>,
          raised |-> FALSE, removed_by_func |-> FALSE]

TmpInit ==
    /\ fs = {<<"t0">>, <<"t0", "f">>}
    /\ tmp = NoTmp

\* wrapper(*args): tmppath = Path(tempfile.mkdtemp()); func(*(args + (tmppath,)))
\* is entered
WithTmpdirCall(args, name) ==
    /\ tmp.pc \in {"idle", "finished"}
    /\ tmp.ncalls < MaxTmpCalls
    /\ <<name>> \notin fs
    /\ fs' = fs \cup {<<name>>}
    /\ tmp' = [pc |-> "running", ncalls |-> tmp.ncalls + 1, tmppath |-> <<name>>,
               args |-> args, passed |-> args \o <<(<<name>>)>>,
               raised |-> FALSE, removed_by_func |-> FALSE]
    /\ UNCHANGED <<loggerVars, patcherVars, unify, timeVars>>

\* the wrapped function creates a file in the directory it was passed
FuncCreates(file) ==
    /\ tmp.pc = "running"
    /\ tmp.passed[Len(tmp.passed)] \in fs
    /\ fs' = fs \cup {Append(tmp.passed[Len(tmp.passed)], file)}
    /\ UNCHANGED tmp
    /\ UNCHANGED <<loggerVars, patcherVars, unify, timeVars>>

\* the wrapped function removes the directory it was passed
FuncRemovesDir ==
    /\ tmp.pc = "running"
    /\ tmp.passed[Len(tmp.passed)] \in fs
    /\ fs' = {q \in fs : ~IsUnder(q, tmp.passed[Len(tmp.passed)])}
    /\ tmp' = [tmp EXCEPT !.removed_by_func = TRUE]
    /\ UNCHANGED <<loggerVars, patcherVars, unify, timeVars>>

\* the wrapped function returns or raises, and the finally clause runs
WithTmpdirFinally(raised) ==
    /\ tmp.pc = "running"
    /\ fs' = TmpdirFinally(fs, tmp.tmppath)
    /\ tmp' = [tmp EXCEPT !.pc = "finished", !.raised = raised]
    /\ UNCHANGED <<loggerVars, patcherVars, unify, timeVars>>

TmpNext ==
    \/ \E args \in CallerArgs, name \in TmpNames : WithTmpdirCall(args, name)
    \/ \E file \in FileNames : FuncCreates(file)
    \/ FuncRemovesDir
    \/ \E raised \in BOOLEAN : WithTmpdirFinally(raised)

Init ==
    /\ LoggerInit
    /\ PatcherInit
    /\ UnifyInit
    /\ TimeInit
    /\ TmpInit

SpecLogger == Init /\ [][LoggerNext]_vars

SpecPatcher == Init /\ [][PatcherNext]_vars

SpecUnify == Init /\ [][UnifyNext]_vars

SpecTime == Init /\ [][TimeNext]_vars

SpecTmpdir == Init /\ [][TmpNext]_vars

\* ------------------------------------------------------------------------
\* CallLogger: properties
\* ------------------------------------------------------------------------
Occurs(s, n) == \E i \in DOMAIN s : s[i] = n

\* the position of the first occurrence of n in s
FirstOccurrence(s, n) == CHOOSE i \in DOMAIN s : s[i] = n /\ \A j \in DOMAIN s : s[j] = n => i <= j

\* C1 as stated: after any check_gui_calls or check_gui_calls_partial invocation,
\* passed or failed, the call log is empty.
C1_LogEmptyAfterAnyCheck ==
    check.op # "none" => calls = <<>>

\* C1 amended: after a check that passed the call log is empty; after a check
\* that failed with an assertion error the call log still holds the recorded calls.
C1_LogClearedOnlyWhenCheckPasses ==
    check.op # "none" =>
        /\ ~check.raised => calls = <<>>
        /\ check.raised => calls = check.recorded

C1_Witness ==
    /\ check.op = "check_gui_calls"
    /\ check.raised
    /\ check.recorded = <<"a", "b">>
    /\ check.expected.val = <<"a">>
    /\ calls = <<"a", "b">>

C3_PartialPassesIff ==
    check.op = "check_gui_calls_partial" =>
        LET rec == check.recorded
            exp == check.expected.val
            nexp == check.not_expected.val
            present == \A i \in DOMAIN exp : Occurs(rec, exp[i])
            absent == \A i \in DOMAIN nexp : ~Occurs(rec, nexp[i])
            ordered == \A i, j \in DOMAIN exp :
                          i < j => FirstOccurrence(rec, exp[i]) <= FirstOccurrence(rec, exp[j])
        IN  /\ ~check.raised <=>
                  /\ present
                  /\ absent
                  /\ check.verify_order => ordered
            /\ (rec = <<"x", "a", "y", "b">> /\ exp = <<"a", "b">> /\ absent) => ~check.raised
            /\ (rec = <<"b", "a">> /\ exp = <<"a", "b">> /\ absent) =>
                  (check.raised <=> check.verify_order)

C3_Witness ==
    /\ check.op = "check_gui_calls_partial"
    /\ check.recorded = <<"x", "a", "y", "b">>
    /\ check.expected = Some(<<"a", "b">>)
    /\ check.verify_order
    /\ ~check.raised

\* ------------------------------------------------------------------------
\* Patcher: properties
\* ------------------------------------------------------------------------
RecordKey(r) == <<r.target, r.attrname>>

\* the attributes that have a patch record
PatchedKeys == {RecordKey(patched[i]) : i \in DOMAIN patched}

\* every attribute patched so far has the value it had before its first patch
RestoredToFirstValues == \A k \in Keys : firstValue[k] # Unset => attrs[k] = firstValue[k]

\* C4: whatever patches were applied to an attribute whose value was V before the
\* first of them, nested ones with other replacement values included, unpatch()
\* leaves the attribute equal to V.
C4_UnpatchRestoresOriginal ==
    lastOp = "unpatch" => RestoredToFirstValues

C4_Witness ==
    /\ lastOp = "unpatch"
    /\ \E i, j \in DOMAIN patched :
          /\ i < j
          /\ RecordKey(patched[i]) = <<"T", "attr">>
          /\ RecordKey(patched[j]) = <<"T", "attr">>
          /\ patched[i].oldvalue = "V"
          /\ patched[j].oldvalue = "R1"
    /\ attrs[<<"T", "attr">>] = "V"

\* C5: constructing a Patcher and entering its scope change no attribute; when
\* the scope is left, by the with statement or by with_app's wrapper, whether
\* the wrapped code returned or raised, unpatch() has run exactly once, every
\* patched attribute is restored, and an exception of the wrapped code
\* propagates.
C5_ScopeExitUnpatchesOnce ==
    /\ [](pc = "done" =>
            /\ scopeExit.unpatches = 1
            /\ scopeExit.propagated = scopeExit.raised
            /\ RestoredToFirstValues)
    /\ [][(lastOp' \in {"new", "enter"}) => attrs' = attrs]_vars

C5_Witness ==
    /\ pc = "done"
    /\ scope = "with_app"
    /\ scopeExit.raised
    /\ scopeExit.propagated
    /\ scopeExit.unpatches = 1
    /\ patched # <<>>
    /\ \E i \in DOMAIN patched : patched[i].oldvalue # "V"

\* the record patch() makes first in a step, and the module names it rebinds
NewRecord == patched'[Len(patched) + 1]
Rebound == {i \in DOMAIN ModuleNames : attrs[<<"M", ModuleNames[i]>>] = attrs[RecordKey(NewRecord)]}

C10_UnpatchConsumesRecords ==
    lastOp = "unpatch" => patched = <<>>

\* C10 amended: unpatch() keeps every patch record and assigns each patched
\* attribute the value it had before its first patch, whatever was patched or
\* assigned since; attributes never patched are left alone.
C10_UnpatchKeepsRecords ==
    [][lastOp' = "unpatch" =>
            /\ patched' = patched
            /\ \A k \in Keys :
                  attrs'[k] = IF k \in PatchedKeys THEN firstValue[k] ELSE attrs[k]
      ]_vars

C10_Witness ==
    /\ lastOp = "unpatch"
    /\ Len(patched) >= 2
    /\ RestoredToFirstValues

\* ------------------------------------------------------------------------
\* _unify_args: properties
\* ------------------------------------------------------------------------
\* what the call binds each parameter of the function to
BoundValue(u, i) ==
    IF i <= u.call.k THEN PositionalValue(i)
    ELSE IF i \in u.call.kw THEN KeywordValue(i)
    ELSE DefaultValue(i)

\* C6: for an ordinary function and a valid call, _unify_args maps every
\* parameter given positionally to the positional value, every parameter given
\* by keyword to the keyword value, and every other parameter to its own
\* declared default.
C6_UnifyMapsEveryParameter ==
    (unify.op = "call" /\ unify.func.has_code /\ ~unify.func.bound
        /\ unify.args_to_ignore = <<>>) =>
        /\ unify.result.raised = "none"
        /\ unify.result.value = [x \in {ParamName[i] : i \in 1..unify.func.n} |->
                                    BoundValue(unify, CHOOSE i \in 1..unify.func.n : ParamName[i] = x)]

\* ------------------------------------------------------------------------
\* patch_today: properties
\* ------------------------------------------------------------------------
\* the whole days between the real date when the outermost patch_today ran and
\* the date asked of the innermost one
OffsetDays == DateOf(anchor) - requested[Len(requested)]

\* C7 as stated: while the patch is in place a read returns the real time at the
\* moment of the read, shifted by the constant offset; after unpatch() the real
\* time.
C7_ReadsFollowRealClock ==
    lastRead.op = "read" =>
        IF timePatched # <<>>
        THEN lastRead.value = realNow - OffsetDays * SecondsPerDay
        ELSE lastRead.value = realNow

\* C7 amended: while the patch is in place every read returns the same instant,
\* the real time at the moment patch_today ran shifted by the whole days between
\* the real date and the requested date, so its date is the requested date and
\* it does not advance with the real clock; after unpatch() a read returns the
\* real time.
C7_ReadsAreFrozen ==
    lastRead.op = "read" =>
        IF timePatched # <<>>
        THEN /\ lastRead.value = anchor - OffsetDays * SecondsPerDay
             /\ DateOf(lastRead.value) = requested[Len(requested)]
        ELSE lastRead.value = realNow

C7_Witness ==
    /\ lastRead.op = "read"
    /\ Len(timePatched) = 1
    /\ OffsetDays = 46
    /\ realNow >= anchor + 2 * TickSeconds
    /\ lastRead.value = anchor - 46 * SecondsPerDay

====
